---- MODULE Spec2Model ----
(***************************************************************************)
(* Worksheet Generator: the HTTP endpoint (api.py), the form UI (app.py),   *)
(* the crew factory (crew.py) and the generation tool (custom_tool.py).     *)
(*                                                                         *)
(* Text is modelled character by character: a Python str is a sequence of  *)
(* one-character strings, so that len(), strip(), truthiness, f-string      *)
(* concatenation and substring tests are computed as Python computes them. *)
(***************************************************************************)
EXTENDS Integers, Sequences, FiniteSets, TLC

(***************************************************************************)
(* Bounds of the model.                                                    *)
(***************************************************************************)
\* Largest run of whitespace put before / after an input or a response.
MaxPad == 1

\* Number of concurrent UI sessions in SpecConc.
NumSessions == 2

(***************************************************************************)
(* Program constants.                                                      *)
(***************************************************************************)
\* stop_after_attempt(3)
MaxAttempts == 3

\* wait_exponential(multiplier=1, min=4, max=10)
WaitMultiplier == 1

WaitMin == 4

WaitMax == 10

\* len(worksheet_content.strip()) < 100
MinContentLen == 100

\* topic: min_length=2, max_length=200
TopicMinLen == 2

TopicMaxLen == 200

\* grade: min_length=1, max_length=10
GradeMinLen == 1

GradeMaxLen == 10

\* board: min_length=2, max_length=20
BoardMinLen == 2

BoardMaxLen == 20

\* subject: min_length=2, max_length=50
SubjectMinLen == 2

SubjectMaxLen == 50

\* stream: max_length=20
StreamMaxLen == 20

\* num_questions: default=10, ge=5, le=20
NumQuestionsDefault == 10

NumQuestionsMin == 5

NumQuestionsMax == 20

\* class_level >= 11 shows the stream selector
StreamFromClass == 11

\* HTTP status codes
HTTP_200 == 200

HTTP_422 == 422

HTTP_500 == 500

HTTP_503 == 503

(***************************************************************************)
(* Python text primitives.                                                 *)
(***************************************************************************)
\* Characters str.strip() removes.
Whitespace == {" ", "\t", "\n"}

\* c * n
Rep(c, n) == [i \in 1..n |-> c]

MinOf(S) == CHOOSE x \in S : \A y \in S : x <= y

MaxOf(S) == CHOOSE x \in S : \A y \in S : x >= y

\* t.strip()
Strip(t) ==
  LET keep == {i \in 1..Len(t) : t[i] \notin Whitespace}
  IN  IF keep = {} THEN <<>> ELSE SubSeq(t, MinOf(keep), MaxOf(keep))

\* bool(t) for a str
Truthy(t) == Len(t) > 0

\* e in t
Contains(t, e) ==
  \E i \in 1..(Len(t) - Len(e) + 1) : SubSeq(t, i, i + Len(e) - 1) = e

\* t.startswith(p)
StartsWith(t, p) == Len(t) >= Len(p) /\ SubSeq(t, 1, Len(p)) = p

Digits == <<"0", "1", "2", "3", "4", "5", "6", "7", "8", "9">>

\* str(n) for n >= 0
RECURSIVE Str(_)
Str(n) == IF n < 10 THEN <<Digits[n + 1]>>
          ELSE Str(n \div 10) \o <<Digits[(n % 10) + 1]>>

\* Optional[...] values
None == [has |-> FALSE, val |-> <<>>]

Some(v) == [has |-> TRUE, val |-> v]

\* whitespace * l + "x" * n + whitespace * r
Padded(l, c, n, r) == Rep(" ", l) \o Rep(c, n) \o Rep(" ", r)

(***************************************************************************)
(* String literals of the source.                                          *)
(***************************************************************************)
\* 'An error occurred while generating the worksheet after multiple retries: ' (73 characters)
ToolErrPrefix ==
  <<
    "A","n"," ","e","r","r","o","r"," ","o","c","c","u","r","r","e","d"," ",
    "w","h","i","l","e"," ","g","e","n","e","r","a","t","i","n","g"," ","t",
    "h","e"," ","w","o","r","k","s","h","e","e","t"," ","a","f","t","e","r",
    " ","m","u","l","t","i","p","l","e"," ","r","e","t","r","i","e","s",":",
    " "
  >>

\* 'Error: The model returned an empty response. Please try again with a more specific topic.' (89 characters)
ToolEmptyMsg ==
  <<
    "E","r","r","o","r",":"," ","T","h","e"," ","m","o","d","e","l"," ","r",
    "e","t","u","r","n","e","d"," ","a","n"," ","e","m","p","t","y"," ","r",
    "e","s","p","o","n","s","e","."," ","P","l","e","a","s","e"," ","t","r",
    "y"," ","a","g","a","i","n"," ","w","i","t","h"," ","a"," ","m","o","r",
    "e"," ","s","p","e","c","i","f","i","c"," ","t","o","p","i","c","."
  >>

\* 'Generate a practice worksheet of ' (33 characters)
PromptHeadA ==
  <<
    "G","e","n","e","r","a","t","e"," ","a"," ","p","r","a","c","t","i","c",
    "e"," ","w","o","r","k","s","h","e","e","t"," ","o","f"," "
  >>

\* '10' (2 characters)
PromptCount ==
  <<
    "1","0"
  >>

\* ' multiple-choice questions with four options each for the following:\n' (69 characters)
PromptHeadB ==
  <<
    " ","m","u","l","t","i","p","l","e","-","c","h","o","i","c","e"," ","q",
    "u","e","s","t","i","o","n","s"," ","w","i","t","h"," ","f","o","u","r",
    " ","o","p","t","i","o","n","s"," ","e","a","c","h"," ","f","o","r"," ",
    "t","h","e"," ","f","o","l","l","o","w","i","n","g",":","\n"
  >>

\* 'School Board: ' (14 characters)
BoardLabel ==
  <<
    "S","c","h","o","o","l"," ","B","o","a","r","d",":"," "
  >>

\* 'Class: ' (7 characters)
ClassLabel ==
  <<
    "C","l","a","s","s",":"," "
  >>

\* 'Stream: ' (8 characters)
StreamLabel ==
  <<
    "S","t","r","e","a","m",":"," "
  >>

\* 'Subject: ' (9 characters)
SubjectLabel ==
  <<
    "S","u","b","j","e","c","t",":"," "
  >>

\* 'Topic/Chapter: ' (15 characters)
TopicLabel ==
  <<
    "T","o","p","i","c","/","C","h","a","p","t","e","r",":"," "
  >>

\* 'Please provide the questions in a clear, numbered list format with the options labeled A, B, C, and D. Also, provide a separate answer key at the end.' (150 characters)
PromptTail ==
  <<
    "P","l","e","a","s","e"," ","p","r","o","v","i","d","e"," ","t","h","e",
    " ","q","u","e","s","t","i","o","n","s"," ","i","n"," ","a"," ","c","l",
    "e","a","r",","," ","n","u","m","b","e","r","e","d"," ","l","i","s","t",
    " ","f","o","r","m","a","t"," ","w","i","t","h"," ","t","h","e"," ","o",
    "p","t","i","o","n","s"," ","l","a","b","e","l","e","d"," ","A",","," ",
    "B",","," ","C",","," ","a","n","d"," ","D","."," ","A","l","s","o",",",
    " ","p","r","o","v","i","d","e"," ","a"," ","s","e","p","a","r","a","t",
    "e"," ","a","n","s","w","e","r"," ","k","e","y"," ","a","t"," ","t","h",
    "e"," ","e","n","d","."
  >>

\* 'AI service is not properly configured. Please contact administrator.' (68 characters)
DetailNotConfigured ==
  <<
    "A","I"," ","s","e","r","v","i","c","e"," ","i","s"," ","n","o","t"," ",
    "p","r","o","p","e","r","l","y"," ","c","o","n","f","i","g","u","r","e",
    "d","."," ","P","l","e","a","s","e"," ","c","o","n","t","a","c","t"," ",
    "a","d","m","i","n","i","s","t","r","a","t","o","r","."
  >>

\* 'AI service initialization failed. Please try again later.' (57 characters)
DetailInitFailed ==
  <<
    "A","I"," ","s","e","r","v","i","c","e"," ","i","n","i","t","i","a","l",
    "i","z","a","t","i","o","n"," ","f","a","i","l","e","d","."," ","P","l",
    "e","a","s","e"," ","t","r","y"," ","a","g","a","i","n"," ","l","a","t",
    "e","r","."
  >>

\* 'Worksheet generation failed. Please try again with different parameters.' (72 characters)
DetailGenerationFailed ==
  <<
    "W","o","r","k","s","h","e","e","t"," ","g","e","n","e","r","a","t","i",
    "o","n"," ","f","a","i","l","e","d","."," ","P","l","e","a","s","e"," ",
    "t","r","y"," ","a","g","a","i","n"," ","w","i","t","h"," ","d","i","f",
    "f","e","r","e","n","t"," ","p","a","r","a","m","e","t","e","r","s","."
  >>

\* 'Generated worksheet appears to be incomplete. Please try again.' (63 characters)
DetailIncomplete ==
  <<
    "G","e","n","e","r","a","t","e","d"," ","w","o","r","k","s","h","e","e",
    "t"," ","a","p","p","e","a","r","s"," ","t","o"," ","b","e"," ","i","n",
    "c","o","m","p","l","e","t","e","."," ","P","l","e","a","s","e"," ","t",
    "r","y"," ","a","g","a","i","n","."
  >>

\* 'An unexpected error occurred during worksheet generation. Please try again later.' (81 characters)
DetailUnexpected ==
  <<
    "A","n"," ","u","n","e","x","p","e","c","t","e","d"," ","e","r","r","o",
    "r"," ","o","c","c","u","r","r","e","d"," ","d","u","r","i","n","g"," ",
    "w","o","r","k","s","h","e","e","t"," ","g","e","n","e","r","a","t","i",
    "o","n","."," ","P","l","e","a","s","e"," ","t","r","y"," ","a","g","a",
    "i","n"," ","l","a","t","e","r","."
  >>

\* 'An internal server error occurred. Please try again later.' (58 characters)
GeneralErrorMsg ==
  <<
    "A","n"," ","i","n","t","e","r","n","a","l"," ","s","e","r","v","e","r",
    " ","e","r","r","o","r"," ","o","c","c","u","r","r","e","d","."," ","P",
    "l","e","a","s","e"," ","t","r","y"," ","a","g","a","i","n"," ","l","a",
    "t","e","r","."
  >>

\* 'An error occurred: ' (19 characters)
UiErrPrefix ==
  <<
    "A","n"," ","e","r","r","o","r"," ","o","c","c","u","r","r","e","d",":",
    " "
  >>

\* 'Debug - Inputs sent: ' (21 characters)
UiDebugPrefix ==
  <<
    "D","e","b","u","g"," ","-"," ","I","n","p","u","t","s"," ","s","e","n",
    "t",":"," "
  >>

\* 'Not specified' (13 characters)
NotSpecified ==
  <<
    "N","o","t"," ","s","p","e","c","i","f","i","e","d"
  >>

\* 'CBSE' (4 characters)
DefaultBoard ==
  <<
    "C","B","S","E"
  >>

\* 'Science' (7 characters)
DefaultSubject ==
  <<
    "S","c","i","e","n","c","e"
  >>

\* '12' (2 characters)
ScenarioGrade ==
  <<
    "1","2"
  >>

\* 'Physics' (7 characters)
ScenarioSubject ==
  <<
    "P","h","y","s","i","c","s"
  >>

\* 'Electromagnetic Induction' (25 characters)
ScenarioTopic ==
  <<
    "E","l","e","c","t","r","o","m","a","g","n","e","t","i","c"," ","I","n",
    "d","u","c","t","i","o","n"
  >>

\* 'Science' (7 characters)
ScenarioStream ==
  <<
    "S","c","i","e","n","c","e"
  >>

\* 'Good (70-79%)' (13 characters)
UiGradeOption ==
  <<
    "G","o","o","d"," ","(","7","0","-","7","9","%",")"
  >>

(***************************************************************************)
(* api.py: request validation (WorksheetRequest).                          *)
(***************************************************************************)
\* @validator('topic', 'grade', 'board', 'subject'): strips a non-empty
\* value and rejects it when nothing is left.
validate_strings(v) ==
  IF Truthy(v)
  THEN IF ~Truthy(Strip(v))
       THEN [ok |-> FALSE, val |-> Strip(v)]
       ELSE [ok |-> TRUE, val |-> Strip(v)]
  ELSE [ok |-> TRUE, val |-> v]

\* @validator('stream'): a non-empty value is stripped, and becomes None
\* when nothing is left.
validate_stream(v) ==
  IF Truthy(v)
  THEN IF ~Truthy(Strip(v)) THEN None ELSE Some(Strip(v))
  ELSE Some(v)

\* A str field with Field(min_length, max_length): the length constraints
\* are checked on the value as received, then the validator runs.
StrField(v, minLen, maxLen) ==
  IF Len(v) < minLen \/ Len(v) > maxLen
  THEN [ok |-> FALSE, val |-> v]
  ELSE validate_strings(v)

\* A str field with a default: the default is used unvalidated when the
\* field is omitted.
DefaultedStrField(o, dflt, minLen, maxLen) ==
  IF ~o.has THEN [ok |-> TRUE, val |-> dflt]
  ELSE StrField(o.val, minLen, maxLen)

\* stream: Optional[str] = Field(default=None, max_length=20)
StreamField(o) ==
  IF ~o.has THEN [ok |-> TRUE, val |-> None]
  ELSE IF Len(o.val) > StreamMaxLen THEN [ok |-> FALSE, val |-> None]
  ELSE [ok |-> TRUE, val |-> validate_stream(o.val)]

\* A plausible slip: the lower bound one too low (ge=4).
NumQuestionsField_LowerBoundOff(o) ==
  IF ~o.has THEN [ok |-> TRUE, val |-> NumQuestionsDefault]
  ELSE [ok |-> o.val >= NumQuestionsMin - 1 /\ o.val <= NumQuestionsMax,
        val |-> o.val]

\* num_questions: int = Field(default=10, ge=5, le=20)
NumQuestionsField(o) ==
  IF ~o.has THEN [ok |-> TRUE, val |-> NumQuestionsDefault]
  ELSE [ok |-> o.val >= NumQuestionsMin /\ o.val <= NumQuestionsMax,
        val |-> o.val]

\* WorksheetRequest(**body): the validated model, or a validation failure.
WorksheetRequest(body) ==
  LET topic   == StrField(body.topic, TopicMinLen, TopicMaxLen)
      grade   == StrField(body.grade, GradeMinLen, GradeMaxLen)
      nq      == NumQuestionsField(body.num_questions)
      board   == DefaultedStrField(body.board, DefaultBoard,
                                   BoardMinLen, BoardMaxLen)
      subject == DefaultedStrField(body.subject, DefaultSubject,
                                   SubjectMinLen, SubjectMaxLen)
      stream  == StreamField(body.stream)
  IN  [ok |-> topic.ok /\ grade.ok /\ nq.ok /\ board.ok /\ subject.ok
               /\ stream.ok,
       model |-> [topic |-> topic.val, grade |-> grade.val,
                  num_questions |-> nq.val, board |-> board.val,
                  subject |-> subject.val, stream |-> stream.val]]

(***************************************************************************)
(* custom_tool.py: the prompt, the tool body and the retry decorator.      *)
(***************************************************************************)
NL == <<"\n">>

\* The prompt _run builds; stream is an Optional[str].
RenderPrompt(board, class_level, subject, topic, stream) ==
  PromptHeadA \o PromptCount \o PromptHeadB
  \o BoardLabel \o board \o NL
  \o ClassLabel \o class_level \o NL
  \o (IF stream.has /\ Truthy(stream.val)
      THEN StreamLabel \o stream.val \o NL ELSE <<>>)
  \o SubjectLabel \o subject \o NL
  \o TopicLabel \o topic \o NL \o NL
  \o PromptTail

\* Outcomes of one self.agent.llm.invoke(prompt).
Raise(e) == [kind |-> "raise", text |-> e]

Return(t) == [kind |-> "return", text |-> t]

\* A plausible slip: the emptiness test without strip()
\* (if not response_text).
RunBody_NoStrip(o) ==
  IF o.kind = "raise"
  THEN [raised |-> FALSE, value |-> ToolErrPrefix \o o.text]
  ELSE IF ~Truthy(o.text)
       THEN [raised |-> FALSE, value |-> ToolEmptyMsg]
       ELSE [raised |-> FALSE, value |-> o.text]

\* The body of _run on one outcome of the external call: the try/except
\* turns every exception into a returned message.
RunBody(o) ==
  IF o.kind = "raise"
  THEN [raised |-> FALSE, value |-> ToolErrPrefix \o o.text]
  ELSE IF ~Truthy(Strip(o.text))
       THEN [raised |-> FALSE, value |-> ToolEmptyMsg]
       ELSE [raised |-> FALSE, value |-> o.text]

\* 2 ** n
RECURSIVE Pow2(_)
Pow2(n) == IF n = 0 THEN 1 ELSE 2 * Pow2(n - 1)

\* A plausible slip: the minimum is not applied (min=4 left out).
WaitExponential_NoMin(k) ==
  LET exp == WaitMultiplier * Pow2(k - 1)
  IN  IF exp < WaitMax THEN exp ELSE WaitMax

\* wait_exponential(multiplier=1, min=4, max=10) after attempt k
WaitExponential(k) ==
  LET exp == WaitMultiplier * Pow2(k - 1)
      lo  == IF WaitMin > 0 THEN WaitMin ELSE 0
      hi  == IF exp < WaitMax THEN exp ELSE WaitMax
  IN  IF lo > hi THEN lo ELSE hi

\* A plausible slip: the decorator also retries when the body returned
\* (a retry condition on the result instead of on the exception).
RetryDecision_OnResult(b, k) ==
  IF k >= MaxAttempts
  THEN IF b.raised THEN "give_up" ELSE "return"
  ELSE "retry"

\* @retry(stop=stop_after_attempt(3), retry=retry_if_exception_type(Exception))
\* after attempt k of the body ended as b.
RetryDecision(b, k) ==
  IF ~b.raised THEN "return"
  ELSE IF k >= MaxAttempts THEN "give_up"
  ELSE "retry"

(***************************************************************************)
(* Input domains.                                                          *)
(***************************************************************************)
\* Credentials.
NoKey == <<>>

ServerKey == <<"k", "0">>

SessionKey(s) == <<"k", Digits[s + 1]>>

\* Exception texts str(e): a short one, and the two around the length at
\* which the tool's failure message reaches MinContentLen characters.
ShortExc == Rep("#", 5)

ExcTexts ==
  {Rep("#", n) : n \in {5, MinContentLen - Len(ToolErrPrefix) - 1,
                        MinContentLen - Len(ToolErrPrefix)}}

\* A response long enough to be accepted.
GoodText == Rep("w", MinContentLen)

\* Response texts around the content threshold, with whitespace around them.
RespTexts ==
  {Padded(l, "w", n, r) : l \in 0..MaxPad, r \in 0..MaxPad,
                          n \in {0, 5, MinContentLen - 1, MinContentLen}}

CoreOutcomes == {Raise(ShortExc), Return(GoodText)}

RichOutcomes == {Raise(e) : e \in ExcTexts} \cup {Return(t) : t \in RespTexts}

\* The external service is a script: its k-th invocation ends as sc[k].
\* One more entry than the retry bound, so that a 4th call would show.
ScriptLen == MaxAttempts + 1

LeanScripts == [1..ScriptLen -> CoreOutcomes]

RichScripts ==
  {sc \in [1..ScriptLen -> RichOutcomes] :
      \A k \in 2..ScriptLen : sc[k] \in CoreOutcomes}

\* HTTP request bodies.
TopicInputs ==
  {Padded(l, "t", n, r) : l \in 0..MaxPad, r \in 0..MaxPad,
                          n \in {0, 1, 2, TopicMaxLen}}

GradeInputs ==
  {Padded(l, "g", n, r) : l \in 0..MaxPad, r \in 0..MaxPad,
                          n \in {0, 1, GradeMaxLen}}

NumQuestionsInputs ==
  {[has |-> FALSE, val |-> 0]}
  \cup {[has |-> TRUE, val |-> n] :
          n \in {NumQuestionsMin - 1, NumQuestionsMin,
                 NumQuestionsMax, NumQuestionsMax + 1}}

StreamInputs ==
  {None, Some(<<>>), Some(Rep(" ", MaxPad)), Some(ScenarioStream),
   Some(Rep("s", StreamMaxLen + 1))}

ApiBodies ==
  [topic : TopicInputs, grade : GradeInputs,
   num_questions : NumQuestionsInputs,
   board : {None}, subject : {None, Some(Rep(" ", SubjectMinLen))},
   stream : StreamInputs]

ScenarioBody ==
  [topic |-> ScenarioTopic, grade |-> ScenarioGrade,
   num_questions |-> [has |-> TRUE, val |-> NumQuestionsDefault],
   board |-> Some(DefaultBoard), subject |-> Some(ScenarioSubject),
   stream |-> Some(ScenarioStream)]

\* The stream widget: "" below class 11, else the selected option.
UiStream(class_level) ==
  IF class_level >= StreamFromClass THEN ScenarioStream ELSE <<>>

\* Form contents at the click.
UiForm(k, c, sj, t) ==
  [api_key |-> k, board |-> DefaultBoard, class_level |-> c,
   grade |-> UiGradeOption, subject |-> sj,
   stream |-> UiStream(c), topic |-> t]

UiForms ==
  {UiForm(k, c, sj, t) :
     k \in {NoKey, SessionKey(1)},
     c \in {StreamFromClass - 1, StreamFromClass + 1},
     sj \in {<<>>, ScenarioSubject},
     t \in {<<>>, Rep(" ", MaxPad), ScenarioTopic}}

ScenarioForms(s) ==
  {UiForm(SessionKey(s), StreamFromClass + 1, ScenarioSubject, ScenarioTopic)}

Sessions == 1..NumSessions

(***************************************************************************)
(* State.                                                                  *)
(***************************************************************************)
VARIABLES
  env,        \* os.environ["GEMINI_API_KEY"] ("" when unset)
  pc,         \* where each request is
  front,      \* "api" or "ui": the front end the request came through
  raw,        \* the request body / the form contents as received
  request,    \* the validated WorksheetRequest (api)
  inputs,     \* the inputs handed to crew.kickoff
  llm_key,    \* api_key of the LLM built by get_worksheet_crew
  kickoffs,   \* number of crew.kickoff calls
  script,     \* behaviour of the external service for this request
  attempt,    \* attempt number of the retry decorator
  sent,       \* prompts passed to self.agent.llm.invoke, in order
  delays,     \* backoff delays slept between attempts, in order
  tool_out,   \* what _run returned
  crew_out,   \* outcome of crew.kickoff: a result or an exception
  response,   \* what the caller / user gets
  cancel      \* the caller's cancellation signal, and when it was issued

vars == <<env, pc, front, raw, request, inputs, llm_key, kickoffs, script,
          attempt, sent, delays, tool_out, crew_out, response, cancel>>

Nothing == [kind |-> "none"]

\* No cancellation was signalled.
NoCancel == [issued |-> FALSE, calls |-> 0]

TypeOK ==
  /\ pc \in [Sessions -> {"idle", "api_handler", "ui_crew", "kickoff",
                          "tool", "invoking", "kicked", "done"}]
  /\ front \in [Sessions -> {"none", "api", "ui", "cli"}]
  /\ kickoffs \in [Sessions -> 0..1]
  /\ attempt \in [Sessions -> 0..MaxAttempts]
  /\ \A s \in Sessions : Len(sent[s]) <= MaxAttempts

InitWith(keys) ==
  /\ env \in keys
  /\ pc = [s \in Sessions |-> "idle"]
  /\ front = [s \in Sessions |-> "none"]
  /\ raw = [s \in Sessions |-> Nothing]
  /\ request = [s \in Sessions |-> Nothing]
  /\ inputs = [s \in Sessions |-> Nothing]
  /\ llm_key = [s \in Sessions |-> NoKey]
  /\ kickoffs = [s \in Sessions |-> 0]
  /\ script = [s \in Sessions |-> <<>>]
  /\ attempt = [s \in Sessions |-> 0]
  /\ sent = [s \in Sessions |-> <<>>]
  /\ delays = [s \in Sessions |-> <<>>]
  /\ tool_out = [s \in Sessions |-> Nothing]
  /\ crew_out = [s \in Sessions |-> Nothing]
  /\ response = [s \in Sessions |-> Nothing]
  /\ cancel = [s \in Sessions |-> NoCancel]

Init == InitWith({NoKey, ServerKey})

(***************************************************************************)
(* api.py: POST /generate-worksheet/                                       *)
(***************************************************************************)
\* ErrorResponse(error=exc.detail, error_code="HTTP_ERROR") with the
\* status of the HTTPException.
http_exception_handler(status_code, detail) ==
  [kind |-> "http", status |-> status_code, success |-> FALSE,
   error |-> detail, error_code |-> "HTTP_ERROR"]

\* ErrorResponse(error=str(exc), error_code="VALIDATION_ERROR"), 400.
value_error_handler(exc) ==
  [kind |-> "http", status |-> 400, success |-> FALSE,
   error |-> exc, error_code |-> "VALIDATION_ERROR"]

\* ErrorResponse(error=<fixed message>, error_code="INTERNAL_ERROR"), 500.
general_exception_handler(exc) ==
  [kind |-> "http", status |-> HTTP_500, success |-> FALSE,
   error |-> GeneralErrorMsg, error_code |-> "INTERNAL_ERROR"]

\* The body failed WorksheetRequest validation: the framework answers 422
\* and the handler is not entered.
RequestValidationError ==
  [kind |-> "http", status |-> HTTP_422, success |-> FALSE,
   error |-> <<>>, error_code |-> "REQUEST_VALIDATION"]

\* WorksheetResponse(worksheet=..., metadata={...})
WorksheetResponse(req, content) ==
  [kind |-> "http", status |-> HTTP_200, success |-> TRUE,
   worksheet |-> content,
   metadata |-> [topic |-> req.topic, grade |-> req.grade,
                 num_questions |-> req.num_questions, board |-> req.board,
                 subject |-> req.subject, stream |-> req.stream,
                 content_length |-> Len(content)]]

\* crew_inputs = {...}
CrewInputs(req) ==
  [topic |-> req.topic, grade |-> req.grade,
   num_questions |-> Some(req.num_questions), board |-> req.board,
   class_level |-> req.grade, subject |-> req.subject,
   stream |-> req.stream]

\* A plausible slip: the length is taken without strip().
ResultIncomplete_Unstripped(worksheet_content) ==
  \/ ~Truthy(worksheet_content)
  \/ Len(worksheet_content) < MinContentLen

\* not worksheet_content or len(worksheet_content.strip()) < 100
ResultIncomplete(worksheet_content) ==
  \/ ~Truthy(worksheet_content)
  \/ Len(Strip(worksheet_content)) < MinContentLen

\* The request arrives and its body is validated.
ApiPost(s, bodies) ==
  /\ pc[s] = "idle"
  /\ \E body \in bodies :
       LET v == WorksheetRequest(body) IN
       /\ front' = [front EXCEPT ![s] = "api"]
       /\ raw' = [raw EXCEPT ![s] = body]
       /\ IF v.ok
          THEN /\ request' = [request EXCEPT ![s] = v.model]
               /\ pc' = [pc EXCEPT ![s] = "api_handler"]
               /\ UNCHANGED response
          ELSE /\ response' = [response EXCEPT ![s] = RequestValidationError]
               /\ pc' = [pc EXCEPT ![s] = "done"]
               /\ UNCHANGED request
  /\ UNCHANGED <<cancel, env, inputs, llm_key, kickoffs, script, attempt, sent,
                 delays, tool_out, crew_out>>

\* A plausible slip: the credential check left out.
KeyConfigured_Unchecked(key) == TRUE

\* os.environ.get("GEMINI_API_KEY") is set and not empty
KeyConfigured(key) == Truthy(key)

\* generate_worksheet up to the crew: the credential check, crew_inputs
\* and get_worksheet_crew(), which may raise.
ApiHandle(s) ==
  /\ pc[s] = "api_handler"
  /\ IF ~KeyConfigured(env)
     THEN /\ response' = [response EXCEPT ![s] =
                 http_exception_handler(HTTP_503, DetailNotConfigured)]
          /\ pc' = [pc EXCEPT ![s] = "done"]
          /\ UNCHANGED <<inputs, llm_key>>
     ELSE /\ inputs' = [inputs EXCEPT ![s] = CrewInputs(request[s])]
          /\ \E built \in BOOLEAN :
               IF built
               THEN /\ llm_key' = [llm_key EXCEPT ![s] = env]
                    /\ pc' = [pc EXCEPT ![s] = "kickoff"]
                    /\ UNCHANGED response
               ELSE /\ response' = [response EXCEPT ![s] =
                          http_exception_handler(HTTP_503, DetailInitFailed)]
                    /\ pc' = [pc EXCEPT ![s] = "done"]
                    /\ UNCHANGED llm_key
  /\ UNCHANGED <<cancel, env, front, raw, request, kickoffs, script, attempt, sent,
                 delays, tool_out, crew_out>>

\* generate_worksheet after crew.kickoff: the except branch, the length
\* check on the result, and the success envelope.
ApiFinish(s) ==
  /\ pc[s] = "kicked"
  /\ front[s] = "api"
  /\ LET worksheet_content == crew_out[s].text IN
     response' = [response EXCEPT ![s] =
       IF crew_out[s].kind = "raise"
       THEN http_exception_handler(HTTP_500, DetailGenerationFailed)
       ELSE IF ResultIncomplete(worksheet_content)
            THEN http_exception_handler(HTTP_500, DetailIncomplete)
            ELSE WorksheetResponse(request[s], worksheet_content)]
  /\ pc' = [pc EXCEPT ![s] = "done"]
  /\ UNCHANGED <<cancel, env, front, raw, request, inputs, llm_key, kickoffs, script,
                 attempt, sent, delays, tool_out, crew_out>>

(***************************************************************************)
(* crew.py and custom_tool.py: the crew run.                               *)
(***************************************************************************)
\* crew.kickoff(inputs=...).  The crew either raises, or its agent answers
\* with text of its own, or the agent runs the tool with the schema's
\* fields of the inputs and the tool's return value is the result.
CrewKickoff(s, scripts) ==
  /\ pc[s] = "kickoff"
  /\ kickoffs' = [kickoffs EXCEPT ![s] = @ + 1]
  /\ \/ \E e \in ExcTexts :
          /\ crew_out' = [crew_out EXCEPT ![s] =
                            [kind |-> "raise", text |-> e, via |-> "crew"]]
          /\ pc' = [pc EXCEPT ![s] = "kicked"]
          /\ UNCHANGED <<script, attempt>>
     \/ \E sc \in scripts :
          /\ sc[1].kind = "return"
          /\ crew_out' = [crew_out EXCEPT ![s] =
                            [kind |-> "result", text |-> sc[1].text,
                             via |-> "agent"]]
          /\ pc' = [pc EXCEPT ![s] = "kicked"]
          /\ UNCHANGED <<script, attempt>>
     \/ \E sc \in scripts :
          /\ script' = [script EXCEPT ![s] = sc]
          /\ attempt' = [attempt EXCEPT ![s] = 1]
          /\ pc' = [pc EXCEPT ![s] = "tool"]
          /\ UNCHANGED crew_out
  /\ UNCHANGED <<cancel, env, front, raw, request, inputs, llm_key, sent, delays,
                 tool_out, response>>

\* An attempt of WorksheetGeneratorTool._run begins: the prompt is built
\* and passed to self.agent.llm.invoke, which blocks until it ends.
ToolInvoke(s) ==
  /\ pc[s] = "tool"
  /\ LET prompt == RenderPrompt(inputs[s].board, inputs[s].class_level,
                                inputs[s].subject, inputs[s].topic,
                                inputs[s].stream)
     IN  sent' = [sent EXCEPT ![s] = Append(@, prompt)]
  /\ pc' = [pc EXCEPT ![s] = "invoking"]
  /\ UNCHANGED <<cancel, env, front, raw, request, inputs, llm_key, kickoffs,
                 script, attempt, delays, tool_out, crew_out, response>>

\* The decorator after attempt k of the body ended as b: it returns the
\* body's value, or sleeps the backoff delay and goes to the next attempt,
\* or gives up.
AfterAttempt(s, b) ==
  LET k == attempt[s]
      d == RetryDecision(b, k)
  IN  IF d = "retry"
      THEN /\ delays' = [delays EXCEPT ![s] = Append(@, WaitExponential(k))]
           /\ attempt' = [attempt EXCEPT ![s] = k + 1]
           /\ pc' = [pc EXCEPT ![s] = "tool"]
           /\ UNCHANGED <<tool_out, crew_out>>
      ELSE /\ tool_out' = [tool_out EXCEPT ![s] =
                [kind |-> IF d = "return" THEN "return" ELSE "raise",
                 text |-> b.value]]
           /\ crew_out' = [crew_out EXCEPT ![s] =
                [kind |-> IF d = "return" THEN "result" ELSE "raise",
                 text |-> b.value, via |-> "tool"]]
           /\ pc' = [pc EXCEPT ![s] = "kicked"]
           /\ UNCHANGED <<delays, attempt>>

\* The external call of the attempt ends: the body of _run handles its
\* outcome and the decorator decides.
ToolAttempt(s) ==
  /\ pc[s] = "invoking"
  /\ AfterAttempt(s, RunBody(script[s][attempt[s]]))
  /\ UNCHANGED <<cancel, env, front, raw, request, inputs, llm_key, kickoffs,
                 script, sent, response>>

\* The caller signals cancellation while the tool runs.  Neither _run nor
\* its decorator takes or polls such a signal.
Cancel(s) ==
  /\ pc[s] \in {"tool", "invoking"}
  /\ ~cancel[s].issued
  /\ cancel' = [cancel EXCEPT ![s] = [issued |-> TRUE, calls |-> Len(sent[s])]]
  /\ UNCHANGED <<env, pc, front, raw, request, inputs, llm_key, kickoffs,
                 script, attempt, sent, delays, tool_out, crew_out, response>>

(***************************************************************************)
(* app.py: the "Generate Worksheet" button.                                *)
(***************************************************************************)
\* '* Please enter your Gemini API Key in the sidebar.' (50 characters) the first character stands for the U+1F6A8 sign
UiNeedKeyMsg ==
  <<
    "*"," ","P","l","e","a","s","e"," ","e","n","t","e","r"," ","y","o","u",
    "r"," ","G","e","m","i","n","i"," ","A","P","I"," ","K","e","y"," ","i",
    "n"," ","t","h","e"," ","s","i","d","e","b","a","r","."
  >>

\* '* Please fill in all the required fields.' (41 characters) the first character stands for the U+1F6A8 sign
UiNeedFieldsMsg ==
  <<
    "*"," ","P","l","e","a","s","e"," ","f","i","l","l"," ","i","n"," ","a",
    "l","l"," ","t","h","e"," ","r","e","q","u","i","r","e","d"," ","f","i",
    "e","l","d","s","."
  >>

\* st.error(...) / st.success(...) and st.session_state.worksheet
UiError(msgs) ==
  [kind |-> "ui", success |-> FALSE, errors |-> msgs, worksheet |-> <<>>]

UiSuccess(text) ==
  [kind |-> "ui", success |-> TRUE, errors |-> <<>>, worksheet |-> text]

\* all([board, class_level, subject, topic])
UiAllFilled(f) ==
  /\ Truthy(f.board)
  /\ f.class_level # 0
  /\ Truthy(f.subject)
  /\ Truthy(f.topic)

\* inputs = {...}
UiInputs(f) ==
  [board |-> f.board, class_level |-> Str(f.class_level),
   subject |-> f.subject, topic |-> f.topic,
   stream |-> Some(IF Truthy(f.stream) THEN f.stream ELSE NotSpecified),
   grade |-> f.grade, num_questions |-> None]

\* The click, up to and including os.environ["GEMINI_API_KEY"] = api_key.
UiClick(s, forms) ==
  /\ pc[s] = "idle"
  /\ \E f \in forms :
       /\ front' = [front EXCEPT ![s] = "ui"]
       /\ raw' = [raw EXCEPT ![s] = f]
       /\ IF ~Truthy(f.api_key)
          THEN /\ response' = [response EXCEPT ![s] =
                                 UiError(<<UiNeedKeyMsg>>)]
               /\ pc' = [pc EXCEPT ![s] = "done"]
               /\ UNCHANGED <<env, inputs>>
          ELSE IF ~UiAllFilled(f)
          THEN /\ response' = [response EXCEPT ![s] =
                                 UiError(<<UiNeedFieldsMsg>>)]
               /\ pc' = [pc EXCEPT ![s] = "done"]
               /\ UNCHANGED <<env, inputs>>
          ELSE /\ env' = f.api_key
               /\ inputs' = [inputs EXCEPT ![s] = UiInputs(f)]
               /\ pc' = [pc EXCEPT ![s] = "ui_crew"]
               /\ UNCHANGED response
  /\ UNCHANGED <<cancel, request, llm_key, kickoffs, script, attempt, sent, delays,
                 tool_out, crew_out>>

\* worksheet_crew = get_worksheet_crew(): the LLM takes its api_key from
\* the environment as it is now; an exception goes to the except branch.
UiGetCrew(s) ==
  /\ pc[s] = "ui_crew"
  /\ \E built \in BOOLEAN :
       IF built
       THEN /\ llm_key' = [llm_key EXCEPT ![s] = env]
            /\ pc' = [pc EXCEPT ![s] = "kickoff"]
            /\ UNCHANGED response
       ELSE /\ response' = [response EXCEPT ![s] =
                  UiError(<<UiErrPrefix \o ShortExc, UiDebugPrefix>>)]
            /\ pc' = [pc EXCEPT ![s] = "done"]
            /\ UNCHANGED llm_key
  /\ UNCHANGED <<cancel, env, front, raw, request, inputs, kickoffs, script, attempt,
                 sent, delays, tool_out, crew_out>>

\* After worksheet_crew.kickoff: the worksheet is stored and shown, or the
\* except branch reports the exception.
UiFinish(s) ==
  /\ pc[s] = "kicked"
  /\ front[s] = "ui"
  /\ response' = [response EXCEPT ![s] =
       IF crew_out[s].kind = "raise"
       THEN UiError(<<UiErrPrefix \o crew_out[s].text, UiDebugPrefix>>)
       ELSE UiSuccess(crew_out[s].text)]
  /\ pc' = [pc EXCEPT ![s] = "done"]
  /\ UNCHANGED <<cancel, env, front, raw, request, inputs, llm_key, kickoffs, script,
                 attempt, sent, delays, tool_out, crew_out>>

(***************************************************************************)
(* main.py: the command-line entry point.                                  *)
(***************************************************************************)
\* Attributes that can be looked up on a plain function object such as
\* get_worksheet_crew; kickoff is an attribute of a Crew, not of these.
FunctionAttrs == {"__call__", "__name__", "__doc__", "__module__"}

\* inputs = {...}, as hard-coded values and as handed to kickoff
CliValues ==
  [board |-> DefaultBoard, class_level |-> ScenarioGrade,
   stream |-> ScenarioStream, subject |-> ScenarioSubject,
   topic |-> ScenarioTopic]

CliInputs == [CliValues EXCEPT !.stream = Some(ScenarioStream)]

\* What run() left behind: the exception it ended with ("none" if it
\* returned) and the lines it printed.
CliOutcome(exc, lines) ==
  [kind |-> "cli", success |-> exc = "none", raised |-> exc,
   printed |-> lines]

\* run(): the credential check, the inputs, the "Kicking off" line, and
\* get_worksheet_crew.kickoff(inputs=inputs), an attribute lookup on the
\* function object itself.
CliRun(s) ==
  /\ pc[s] = "idle"
  /\ front' = [front EXCEPT ![s] = "cli"]
  /\ raw' = [raw EXCEPT ![s] = CliValues]
  /\ IF ~Truthy(env)
     THEN /\ response' = [response EXCEPT ![s] =
                            CliOutcome("ValueError", <<>>)]
          /\ UNCHANGED inputs
     ELSE /\ inputs' = [inputs EXCEPT ![s] = CliInputs]
          /\ response' = [response EXCEPT ![s] =
               IF "kickoff" \in FunctionAttrs
               THEN CliOutcome("TypeError", <<"kicking_off">>)
               ELSE CliOutcome("AttributeError", <<"kicking_off">>)]
  /\ pc' = [pc EXCEPT ![s] = "done"]
  /\ UNCHANGED <<cancel, env, request, llm_key, kickoffs, script, attempt,
                 sent, delays, tool_out, crew_out>>

(***************************************************************************)
(* Specifications.                                                         *)
(***************************************************************************)
\* One request through either front end, over the wide input domains.
Next ==
  \/ ApiPost(1, ApiBodies)
  \/ ApiHandle(1)
  \/ ApiFinish(1)
  \/ UiClick(1, UiForms)
  \/ UiGetCrew(1)
  \/ UiFinish(1)
  \/ CrewKickoff(1, LeanScripts)
  \/ ToolInvoke(1)
  \/ ToolAttempt(1)
  \/ CliRun(1)

Spec == Init /\ [][Next]_vars

\* One well-formed request through either front end, over the wide range
\* of behaviours of the external service.
NextGen ==
  \/ ApiPost(1, {ScenarioBody})
  \/ ApiHandle(1)
  \/ ApiFinish(1)
  \/ UiClick(1, ScenarioForms(1))
  \/ UiGetCrew(1)
  \/ UiFinish(1)
  \/ CrewKickoff(1, RichScripts)
  \/ ToolInvoke(1)
  \/ ToolAttempt(1)
  \/ Cancel(1)

SpecGen == Init /\ [][NextGen]_vars

\* Concurrent UI sessions of one process, each with its own credential.
ConcScripts == {[k \in 1..ScriptLen |-> o] : o \in CoreOutcomes}

NextConc ==
  \E s \in Sessions :
    \/ UiClick(s, ScenarioForms(s))
    \/ UiGetCrew(s)
    \/ UiFinish(s)
    \/ CrewKickoff(s, ConcScripts)
    \/ ToolInvoke(s)
    \/ ToolAttempt(s)

InitConc == InitWith({NoKey})

SpecConc == InitConc /\ [][NextConc]_vars

\* The retry policy of the decorator on its own: @retry around a body that
\* may end either way, raising included, with the tool called directly.
BodyResults ==
  {[raised |-> r, value |-> t] : r \in BOOLEAN, t \in ExcTexts \cup RespTexts}

RetryInputs ==
  {CrewInputs(WorksheetRequest(b).model) :
     b \in {ScenarioBody, [ScenarioBody EXCEPT !.stream = None]}}

\* The external call of the attempt ends and the body ends as one of
\* results.
DecoratedAttempt(s, results) ==
  /\ pc[s] = "invoking"
  /\ \E b \in results : AfterAttempt(s, b)
  /\ UNCHANGED <<cancel, env, front, raw, request, inputs, llm_key, kickoffs,
                 script, sent, response>>

InitRetry ==
  /\ env = ServerKey
  /\ pc = [s \in Sessions |-> IF s = 1 THEN "tool" ELSE "idle"]
  /\ front = [s \in Sessions |-> "none"]
  /\ raw = [s \in Sessions |-> Nothing]
  /\ request = [s \in Sessions |-> Nothing]
  /\ \E i \in RetryInputs :
       inputs = [s \in Sessions |-> IF s = 1 THEN i ELSE Nothing]
  /\ llm_key = [s \in Sessions |-> NoKey]
  /\ kickoffs = [s \in Sessions |-> 0]
  /\ script = [s \in Sessions |-> <<>>]
  /\ attempt = [s \in Sessions |-> IF s = 1 THEN 1 ELSE 0]
  /\ sent = [s \in Sessions |-> <<>>]
  /\ delays = [s \in Sessions |-> <<>>]
  /\ tool_out = [s \in Sessions |-> Nothing]
  /\ crew_out = [s \in Sessions |-> Nothing]
  /\ response = [s \in Sessions |-> Nothing]
  /\ cancel = [s \in Sessions |-> NoCancel]

NextRetry ==
  \/ ToolInvoke(1)
  \/ DecoratedAttempt(1, BodyResults)

SpecRetry == InitRetry /\ [][NextRetry]_vars

(***************************************************************************)
(* Properties.                                                             *)
(***************************************************************************)
\* The tool has finished for session s.
ToolDone(s) == tool_out[s].kind # "none"

\* Number of self.agent.llm.invoke calls made for session s.
Calls(s) == Len(sent[s])

\* The external service raises on its 1st and 2nd invocation and returns
\* non-empty text on its 3rd.
FailsTwiceThenSucceeds(sc) ==
  /\ sc[1].kind = "raise"
  /\ sc[2].kind = "raise"
  /\ sc[3].kind = "return"
  /\ Truthy(Strip(sc[3].text))

\* The external service raises on every invocation.
AlwaysFails(sc) == \A k \in 1..Len(sc) : sc[k].kind = "raise"

\* C1: when the external call raises on its first two invocations and
\* returns non-empty text on the third, _run invokes it exactly 3 times and
\* returns the third call's text.
C1_ThirdCallReturned ==
  \A s \in Sessions :
    (ToolDone(s) /\ FailsTwiceThenSucceeds(script[s]))
      => /\ Calls(s) = 3
         /\ tool_out[s] = [kind |-> "return", text |-> script[s][3].text]

\* C2: when the external call raises on every invocation, _run makes
\* exactly 3 invocations, never a 4th, and ends with a failure that is
\* returned to the caller, not raised.
C2_ThreeCallsThenFailure ==
  \A s \in Sessions :
    /\ Calls(s) <= MaxAttempts
    /\ (ToolDone(s) /\ AlwaysFails(script[s]))
         => /\ Calls(s) = MaxAttempts
            /\ tool_out[s].kind = "return"

\* C3: a POST /generate-worksheet/ whose external call failed on every
\* attempt, with the tool's return value as the crew result, is answered
\* with an error envelope (success=false, non-2xx), never with a success
\* envelope.
C3_ExhaustionIsAnError ==
  \A s \in Sessions :
    (/\ front[s] = "api"
     /\ pc[s] = "done"
     /\ crew_out[s].kind = "result"
     /\ crew_out[s].via = "tool"
     /\ \A k \in 1..Calls(s) : script[s][k].kind = "raise")
      => /\ response[s].success = FALSE
         /\ response[s].status \notin 200..299

\* The topic as received by the front end.
RawTopic(s) == raw[s].topic

\* C4: for every input whose topic is empty or whitespace-only, validation
\* fails and the crew is never called, on the HTTP endpoint and on the
\* form UI.
C4_BlankTopicRejected ==
  \A s \in Sessions :
    (front[s] # "none" /\ ~Truthy(Strip(RawTopic(s))))
      => /\ pc[s] = "done"
         /\ response[s].success = FALSE
         /\ kickoffs[s] = 0

\* C5: the HTTP endpoint returns a success envelope only if the worksheet
\* text has at least 100 characters after trimming; whenever the crew
\* result is empty or its trimmed length is below 100 the answer is the
\* 'incomplete' HTTP 500 error.
C5_SuccessNeedsContent ==
  \A s \in Sessions :
    (front[s] = "api" /\ pc[s] = "done")
      => /\ response[s].success
              => /\ crew_out[s].kind = "result"
                 /\ response[s].worksheet = crew_out[s].text
                 /\ Len(Strip(response[s].worksheet)) >= MinContentLen
         /\ (/\ crew_out[s].kind = "result"
             /\ \/ crew_out[s].text = <<>>
                \/ Len(Strip(crew_out[s].text)) < MinContentLen)
              => /\ response[s].success = FALSE
                 /\ response[s].status = HTTP_500
                 /\ response[s].error = DetailIncomplete

\* C5 witness: a crew result of at least 100 characters whose trimmed
\* length is below 100 was answered with the 'incomplete' error.
C5_Witness ==
  \E s \in Sessions :
    /\ front[s] = "api"
    /\ pc[s] = "done"
    /\ crew_out[s].kind = "result"
    /\ Len(crew_out[s].text) >= MinContentLen
    /\ Len(Strip(crew_out[s].text)) < MinContentLen
    /\ response[s].status = HTTP_500
    /\ response[s].error = DetailIncomplete

\* The prompt asks for n questions, with options A-D and an answer key.
AsksFor(p, n) ==
  /\ StartsWith(p, PromptHeadA \o Str(n) \o PromptHeadB)
  /\ Contains(p, PromptTail)

\* C6: for every accepted request with question count n in 5..20, the
\* prompt sent to the external service asks for exactly n multiple-choice
\* questions with options A-D and a separate answer key.
C6_PromptAsksForRequestedCount ==
  \A s \in Sessions :
    front[s] = "api"
      => \A i \in 1..Calls(s) :
           AsksFor(sent[s][i], request[s].num_questions)

\* Positions at which a line of p starts.
LineStarts(p) == {1} \cup {i + 1 : i \in {j \in 1..Len(p) : p[j] = "\n"}}

\* p has a line starting with label.
HasLine(p, label) ==
  \E i \in LineStarts(p) :
    /\ i + Len(label) - 1 <= Len(p)
    /\ SubSeq(p, i, i + Len(label) - 1) = label

\* A stream was actually supplied at the front end.
StreamSupplied(s) ==
  IF front[s] = "api"
  THEN raw[s].stream.has /\ Truthy(Strip(raw[s].stream.val))
  ELSE Truthy(Strip(raw[s].stream))

\* C7: the prompt always has the board, class, subject and topic lines,
\* and has a 'Stream:' line if and only if a stream was actually supplied
\* at the front end.
C7_StreamLineIffSupplied ==
  \A s \in Sessions :
    \A i \in 1..Calls(s) :
      /\ HasLine(sent[s][i], BoardLabel)
      /\ HasLine(sent[s][i], ClassLabel)
      /\ HasLine(sent[s][i], SubjectLabel)
      /\ HasLine(sent[s][i], TopicLabel)
      /\ HasLine(sent[s][i], StreamLabel) <=> StreamSupplied(s)

\* C8: for any interleaving of requests that supply different credentials,
\* the LLM built for each request uses that request's own credential.
C8_OwnCredential ==
  \A s \in Sessions :
    (front[s] = "ui" /\ pc[s] \in {"kickoff", "tool", "kicked"})
      => llm_key[s] = raw[s].api_key

\* C9: on every failure path (tool failure result, HTTP error envelope, UI
\* error message) the text shown does not embed the text of the internal
\* exception.
C9_NoExceptionText ==
  \A s \in Sessions :
    /\ (ToolDone(s) /\ script[s][Calls(s)].kind = "raise")
         => ~Contains(tool_out[s].text, script[s][Calls(s)].text)
    /\ (pc[s] = "done" /\ crew_out[s].kind = "raise")
         => IF front[s] = "api"
            THEN ~Contains(response[s].error, crew_out[s].text)
            ELSE \A i \in 1..Len(response[s].errors) :
                   ~Contains(response[s].errors[i], crew_out[s].text)

\* C10: for every request the HTTP endpoint accepts, the topic forwarded to
\* the crew has 2..200 characters and the grade 1..10 characters.
C10_ForwardedLengths ==
  \A s \in Sessions :
    (front[s] = "api" /\ kickoffs[s] > 0)
      => /\ Len(inputs[s].topic) >= TopicMinLen
         /\ Len(inputs[s].topic) <= TopicMaxLen
         /\ Len(inputs[s].grade) >= GradeMinLen
         /\ Len(inputs[s].grade) <= GradeMaxLen

\* C11: every HTTP request whose num_questions is below 5 or above 20 is
\* rejected by validation before the crew is invoked; an omitted
\* num_questions is treated as 10.
C11_QuestionCountValidated ==
  \A s \in Sessions :
    front[s] = "api"
      => /\ (/\ raw[s].num_questions.has
             /\ \/ raw[s].num_questions.val < NumQuestionsMin
                \/ raw[s].num_questions.val > NumQuestionsMax)
              => /\ pc[s] = "done"
                 /\ response[s].success = FALSE
                 /\ response[s].status = HTTP_422
                 /\ request[s] = Nothing
                 /\ llm_key[s] = NoKey
                 /\ kickoffs[s] = 0
         /\ (~raw[s].num_questions.has /\ request[s] # Nothing)
              => request[s].num_questions = NumQuestionsDefault

\* C11 witness: a body that is valid but for its num_questions of 4 was
\* answered 422 without the crew being called.
C11_Witness ==
  /\ front[1] = "api"
  /\ pc[1] = "done"
  /\ raw[1].num_questions.has
  /\ raw[1].num_questions.val = NumQuestionsMin - 1
  /\ WorksheetRequest([raw[1] EXCEPT !.num_questions =
                         [has |-> FALSE, val |-> 0]]).ok
  /\ response[1].status = HTTP_422
  /\ kickoffs[1] = 0

\* C12: if a cancellation signal is issued after attempt 1 of the external
\* call has begun and before attempt 2 starts, the retry loop stops, attempt
\* 2 never starts, and the result is a Cancelled failure, distinct from
\* retry exhaustion.
C12_CancelYieldsCancelled ==
  \A s \in Sessions :
    (cancel[s].issued /\ cancel[s].calls = 1 /\ ToolDone(s))
      => /\ Calls(s) = 1
         /\ tool_out[s].kind = "cancelled"

\* Attempts of session s that have ended.
Ended(s) ==
  IF attempt[s] = 0 THEN 0
  ELSE IF ToolDone(s) THEN attempt[s] ELSE attempt[s] - 1

ClampedExponential(k) ==
  LET exp == WaitMultiplier * Pow2(k - 1)
  IN  IF exp < WaitMin THEN WaitMin
      ELSE IF exp > WaitMax THEN WaitMax
      ELSE exp

\* C14: every backoff delay inserted between a failed attempt and the next
\* attempt lies in [4, 10], is the exponential value (multiplier 1) clamped
\* to that range, and the delays of one invocation are non-decreasing in
\* the attempt number.
C14_BackoffDelays ==
  \A s \in Sessions :
    \A i \in 1..Len(delays[s]) :
      /\ delays[s][i] >= 4
      /\ delays[s][i] <= 10
      /\ delays[s][i] = ClampedExponential(i)
      /\ i > 1 => delays[s][i - 1] <= delays[s][i]

\* C14 witness: two attempts failed and a delay was inserted after each,
\* before the third attempt.
C14_Witness ==
  /\ attempt[1] = MaxAttempts
  /\ Len(delays[1]) = MaxAttempts - 1
  /\ pc[1] = "invoking"

\* The external service answered the first attempt with empty or
\* whitespace-only text.
EmptyAnswer(s) ==
  /\ script[s][1].kind = "return"
  /\ ~Truthy(Strip(script[s][1].text))

\* C15: the invocation ends in success only for a non-empty response body:
\* when the external service returns empty or whitespace-only text, the
\* tool makes no further attempt and returns its fixed 'empty response'
\* message, and with that message as the crew result the HTTP endpoint
\* answers with an error envelope, never a success envelope.
C15_EmptyResponseIsAnError ==
  \A s \in Sessions :
    ToolDone(s)
      => /\ EmptyAnswer(s)
              => /\ Calls(s) = 1
                 /\ tool_out[s] = [kind |-> "return", text |-> ToolEmptyMsg]
                 /\ (front[s] = "api" /\ pc[s] = "done")
                      => /\ response[s].success = FALSE
                         /\ response[s].status \notin 200..299
         /\ (/\ script[s][Calls(s)].kind = "return"
             /\ tool_out[s].text = script[s][Calls(s)].text)
              => Truthy(Strip(tool_out[s].text))

\* C15 witness: the external service returned whitespace only and the
\* HTTP endpoint answered with the 'incomplete' error.
C15_Witness ==
  /\ front[1] = "api"
  /\ pc[1] = "done"
  /\ ToolDone(1)
  /\ EmptyAnswer(1)
  /\ Truthy(script[1][1].text)
  /\ crew_out[1].text = ToolEmptyMsg
  /\ response[1].status = HTTP_500

\* C16: whenever GEMINI_API_KEY is unset or empty when POST
\* /generate-worksheet/ is handled, the endpoint answers HTTP 503 and
\* neither get_worksheet_crew nor crew.kickoff is called; and each handled
\* request ends in exactly one of: the success envelope, a 503 (not
\* configured / crew initialisation failed), or a 500 (crew execution
\* failed / incomplete / unexpected).
C16_HandlerOutcomes ==
  \A s \in Sessions :
    (front[s] = "api" /\ pc[s] = "done" /\ request[s] # Nothing)
      => /\ ~Truthy(env)
              => /\ response[s].status = HTTP_503
                 /\ response[s].success = FALSE
                 /\ response[s].error = DetailNotConfigured
                 /\ inputs[s] = Nothing
                 /\ llm_key[s] = NoKey
                 /\ kickoffs[s] = 0
         /\ \/ /\ response[s].success
               /\ response[s].status = HTTP_200
            \/ /\ response[s].success = FALSE
               /\ response[s].status = HTTP_503
               /\ response[s].error \in {DetailNotConfigured, DetailInitFailed}
            \/ /\ response[s].success = FALSE
               /\ response[s].status = HTTP_500
               /\ response[s].error \in {DetailGenerationFailed,
                                         DetailIncomplete, DetailUnexpected}

\* C16 witness: a valid request was handled with the key unset and got the
\* 503.
C16_Witness ==
  /\ front[1] = "api"
  /\ pc[1] = "done"
  /\ request[1] # Nothing
  /\ ~Truthy(env)
  /\ response[1].status = HTTP_503

\* C17: run() raises ValueError before any crew is created when
\* GEMINI_API_KEY is unset; when it is set, run() creates a crew via
\* get_worksheet_crew(), kicks it off with the fixed CBSE / 12 / Science /
\* Physics / Electromagnetic Induction inputs, and prints the result.
C17_CliRuns ==
  \A s \in Sessions :
    (front[s] = "cli" /\ pc[s] = "done")
      => IF ~Truthy(env)
         THEN /\ response[s].raised = "ValueError"
              /\ llm_key[s] = NoKey
              /\ kickoffs[s] = 0
         ELSE /\ response[s].raised = "none"
              /\ llm_key[s] = env
              /\ kickoffs[s] = 1
              /\ inputs[s] = CliInputs
              /\ Len(response[s].printed) > 1

====
